---- MODULE Spec2Model ----
(***************************************************************************)
(* Regular-expression engine of zero_rust/regex: the code generator        *)
(* (engine/codegen.rs) that turns an AST into a vector of instructions,    *)
(* and the depth-first backtracking evaluator (engine/evaluator.rs) that   *)
(* runs the vector against a line.  The generator is a pure function and   *)
(* is modelled by operators; the evaluator's recursion is modelled by an   *)
(* explicit call stack of eval_depth invocations.                          *)
(***************************************************************************)
EXTENDS Integers, Sequences, FiniteSets, TLC

VARIABLES ast, line, include_head_of_line, insts, stack, ret, result, driver, prior

vars == <<ast, line, include_head_of_line, insts, stack, ret, result, driver, prior>>

(***************************************************************************)
(* Bounds of the model.                                                    *)
(***************************************************************************)
\* longest input line
MaxLineLen == 3
\* number of redundant Star wrappers put around a body (beyond the first)
MaxChain == 2
\* number of eval_depth invocations the call stack of the process can hold
StackLimit == 16

Alphabet == {"a", "b"}

(***************************************************************************)
(* Instruction (engine.rs).  One record shape for all variants; the fields *)
(* a variant does not have are held at a fixed filler.                     *)
(***************************************************************************)
Char(c) == [op |-> "Char", c |-> c, t1 |-> 0, t2 |-> 0]
Match == [op |-> "Match", c |-> "", t1 |-> 0, t2 |-> 0]
Jump(addr) == [op |-> "Jump", c |-> "", t1 |-> addr, t2 |-> 0]
Split(addr1, addr2) == [op |-> "Split", c |-> "", t1 |-> addr1, t2 |-> addr2]
AnyChar == [op |-> "AnyChar", c |-> "", t1 |-> 0, t2 |-> 0]
HeadOfLine == [op |-> "HeadOfLine", c |-> "", t1 |-> 0, t2 |-> 0]

(***************************************************************************)
(* AST, as gen_expr matches on it (codegen.rs:52-77).  kids holds the      *)
(* boxed operands (one for Star, Plus, Question; two for Or) or the        *)
(* vector of a Seq.                                                        *)
(***************************************************************************)
AstChar(c) == [t |-> "Char", c |-> c, kids |-> <<>>]
AstDot == [t |-> "Dot", c |-> "", kids |-> <<>>]
AstOr(e1, e2) == [t |-> "Or", c |-> "", kids |-> <<e1, e2>>]
AstPlus(e) == [t |-> "Plus", c |-> "", kids |-> <<e>>]
AstStar(e) == [t |-> "Star", c |-> "", kids |-> <<e>>]
AstQuestion(e) == [t |-> "Question", c |-> "", kids |-> <<e>>]
AstSeq(v) == [t |-> "Seq", c |-> "", kids |-> v]

(***************************************************************************)
(* Generator (codegen.rs:28-31) with the Result of the method in progress: *)
(* err is "none" while every call so far returned Ok; after an Err the `?` *)
(* operator skips everything that follows.                                 *)
(***************************************************************************)
\* trace is a history of the gen_expr calls, kept for the counter invariant:
\* one entry per call and per successful return, with pc and insts as they
\* are at that moment
GeneratorDefault == [pc |-> 0, insts |-> <<>>, err |-> "none", trace |-> <<>>]

\* the moment a gen_expr call is entered (ev = "entry") or returns Ok (ev = "return")
note(g, ev) ==
    IF g.err # "none" THEN g
    ELSE [g EXCEPT !.trace = Append(@, [ev |-> ev, pc |-> g.pc, insts |-> g.insts])]

\* inc_pc: safe_add(&mut self.pc, &1, ..).  The checked addition fails only
\* at pc = usize::MAX, which no program of the sizes generated here reaches.
inc_pc(g) == IF g.err # "none" THEN g ELSE [g EXCEPT !.pc = @ + 1]

\* self.insts.push(inst)
push(g, inst) == IF g.err # "none" THEN g ELSE [g EXCEPT !.insts = Append(@, inst)]

\* if let Some(Instruction::Split(_, l2)) = self.insts.get_mut(addr)
\*     { *l2 = self.pc } else { Err(err) }
patch_split(g, addr, err) ==
    IF g.err # "none" THEN g
    ELSE IF addr < Len(g.insts) /\ g.insts[addr + 1].op = "Split"
         THEN [g EXCEPT !.insts[addr + 1].t2 = g.pc]
         ELSE [g EXCEPT !.err = err]

\* if let Some(Instruction::Jump(l3)) = self.insts.get_mut(addr)
\*     { *l3 = self.pc } else { Err(err) }
patch_jump(g, addr, err) ==
    IF g.err # "none" THEN g
    ELSE IF addr < Len(g.insts) /\ g.insts[addr + 1].op = "Jump"
         THEN [g EXCEPT !.insts[addr + 1].t1 = g.pc]
         ELSE [g EXCEPT !.err = err]

\* gen_char that pushes the instruction and leaves pc as it was
gen_char_no_inc(g, c) == push(g, Char(c))

RECURSIVE gen_expr(_, _)

gen_char(g, c) == inc_pc(push(g, Char(c)))

\* gen_or that notes the address of its Split after counting it
gen_or_addr_late(g, e1, e2) ==
    LET g1 == inc_pc(g)
        split_addr == g1.pc
        g2 == push(g1, Split(g1.pc, 0))
        g3 == gen_expr(g2, e1)
        jump_addr == g3.pc
        g4 == push(g3, Jump(0))
        g5 == inc_pc(g4)
        g6 == patch_split(g5, split_addr, "FailOr")
        g7 == gen_expr(g6, e2)
    IN  patch_jump(g7, jump_addr, "FailOr")

\* gen_or that never writes L3 into its Jump
gen_or_unpatched_jump(g, e1, e2) ==
    LET split_addr == g.pc
        g1 == inc_pc(g)
        g2 == push(g1, Split(g1.pc, 0))
        g3 == gen_expr(g2, e1)
        g4 == push(g3, Jump(0))
        g5 == inc_pc(g4)
        g6 == patch_split(g5, split_addr, "FailOr")
    IN  gen_expr(g6, e2)

\* gen_or that sets L2 before it has counted the Jump
gen_or_l2_early(g, e1, e2) ==
    LET split_addr == g.pc
        g1 == inc_pc(g)
        g2 == push(g1, Split(g1.pc, 0))
        g3 == gen_expr(g2, e1)
        jump_addr == g3.pc
        g4 == push(g3, Jump(0))
        g5 == patch_split(g4, split_addr, "FailOr")
        g6 == inc_pc(g5)
        g7 == gen_expr(g6, e2)
    IN  patch_jump(g7, jump_addr, "FailOr")

gen_or(g, e1, e2) ==
    LET split_addr == g.pc
        g1 == inc_pc(g)
        g2 == push(g1, Split(g1.pc, 0))
        g3 == gen_expr(g2, e1)
        jump_addr == g3.pc
        g4 == push(g3, Jump(0))
        g5 == inc_pc(g4)
        g6 == patch_split(g5, split_addr, "FailOr")
        g7 == gen_expr(g6, e2)
    IN  patch_jump(g7, jump_addr, "FailOr")

\* gen_question that sets L2 before the code of e is emitted
gen_question_l2_early(g, e) ==
    LET split_addr == g.pc
        g1 == inc_pc(g)
        g2 == push(g1, Split(g1.pc, 0))
        g3 == patch_split(g2, split_addr, "FailQuestion")
    IN  gen_expr(g3, e)

gen_question(g, e) ==
    LET split_addr == g.pc
        g1 == inc_pc(g)
        g2 == push(g1, Split(g1.pc, 0))
        g3 == gen_expr(g2, e)
    IN  patch_split(g3, split_addr, "FailQuestion")

\* gen_plus that takes L2 before it has counted the Split
gen_plus_l2_early(g, e) ==
    LET l1 == g.pc
        g1 == gen_expr(g, e)
    IN  push(inc_pc(g1), Split(l1, g1.pc))

gen_plus(g, e) ==
    LET l1 == g.pc
        g1 == gen_expr(g, e)
        g2 == inc_pc(g1)
    IN  push(g2, Split(l1, g2.pc))

\* gen_star whose Jump goes to L2, the body, instead of L1, the Split
gen_star_jump_l2(g, e) ==
    LET l1 == g.pc
        g1 == inc_pc(g)
        g2 == push(g1, Split(g1.pc, 0))
        g3 == gen_expr(g2, e)
        g4 == inc_pc(g3)
        g5 == push(g4, Jump(g1.pc))
    IN  patch_split(g5, l1, "FailStar")

gen_star(g, e) ==
    LET l1 == g.pc
        g1 == inc_pc(g)
        g2 == push(g1, Split(g1.pc, 0))
        g3 == gen_expr(g2, e)
        g4 == inc_pc(g3)
        g5 == push(g4, Jump(l1))
    IN  patch_split(g5, l1, "FailStar")

RECURSIVE gen_seq_from(_, _, _)
gen_seq_from(g, exprs, i) ==
    IF i > Len(exprs) \/ g.err # "none" THEN g
    ELSE gen_seq_from(gen_expr(g, exprs[i]), exprs, i + 1)

\* gen_seq whose loop misses the first element
gen_seq_skip_first(g, exprs) == gen_seq_from(g, exprs, 2)

gen_seq(g, exprs) == gen_seq_from(g, exprs, 1)

\* the Star arm of gen_expr without the two arms for a Star in a Star
gen_expr_star_nocollapse(g, e1) == gen_star(g, e1)

\* the Star arm of gen_expr: a Star whose operand is a Star, or a Seq of the
\* single element Star, is generated as that inner Star
gen_expr_star(g, e1) ==
    IF e1.t = "Star" THEN gen_expr(g, e1)
    ELSE IF e1.t = "Seq" /\ Len(e1.kids) = 1
         THEN IF e1.kids[1].t = "Star"
              THEN gen_expr(g, e1.kids[1])
              ELSE gen_star(g, e1)
         ELSE gen_star(g, e1)

gen_expr(g, e) ==
    IF g.err # "none" THEN g
    ELSE LET g0 == note(g, "entry")
         IN  note(CASE e.t = "Char" -> gen_char(g0, e.c)
                    [] e.t = "Or" -> gen_or(g0, e.kids[1], e.kids[2])
                    [] e.t = "Plus" -> gen_plus(g0, e.kids[1])
                    [] e.t = "Star" -> gen_expr_star(g0, e.kids[1])
                    [] e.t = "Question" -> gen_question(g0, e.kids[1])
                    [] e.t = "Seq" -> gen_seq(g0, e.kids)
                    [] e.t = "Dot" -> inc_pc(push(g0, AnyChar)),
                  "return")

\* gen_code that does not end the program with Match
gen_code_no_match(e) == inc_pc(gen_expr(GeneratorDefault, e))

\* Generator::gen_code followed by the free function gen_code: the Generator
\* after gen_expr, inc_pc and the push of Match; insts is the Ok value.
gen_code(e) == push(inc_pc(gen_expr(GeneratorDefault, e)), Match)

(***************************************************************************)
(* Inputs.  The ASTs are every tree of nesting depth at most one over the  *)
(* alphabet and the wildcard, those trees under one more operator, and     *)
(* chains of redundant Star wrappers; the lines are every string over the  *)
(* alphabet up to MaxLineLen.                                              *)
(***************************************************************************)
NoAst == [t |-> "None", c |-> "", kids |-> <<>>]

Leaves == {AstChar(c) : c \in Alphabet} \cup {AstDot}

Unary(S) == {AstStar(e) : e \in S} \cup {AstPlus(e) : e \in S}
            \cup {AstQuestion(e) : e \in S} \cup {AstSeq(<<e>>) : e \in S}

Binary(S, T) == {AstOr(x, y) : x \in S, y \in T} \cup {AstSeq(<<x, y>>) : x \in S, y \in T}

Level1 == Leaves \cup Unary(Leaves) \cup Binary(Leaves, Leaves)

Level2 == Level1 \cup Unary(Level1) \cup Binary(Level1, Leaves) \cup Binary(Leaves, Level1)

\* n more Star wrappers around the Stars of S, each directly around the
\* next or around a Seq of the single element
RECURSIVE StarChains(_, _)
StarChains(S, n) ==
    IF n = 0 THEN S
    ELSE LET W == {AstStar(x) : x \in S} \cup {AstStar(AstSeq(<<x>>)) : x \in S}
         IN  S \cup StarChains(W, n - 1)

\* the patterns of tests::test_code_gen (codegen.rs:243-293), as trees
Ast_abc == AstSeq(<<AstChar("a"), AstChar("b"), AstChar("c")>>)
Ast_ab_or_c == AstOr(AstSeq(<<AstChar("a"), AstChar("b")>>), AstSeq(<<AstChar("c")>>))
Ast_ab_plus_c == AstSeq(<<AstPlus(AstSeq(<<AstChar("a"), AstChar("b")>>)), AstChar("c")>>)
Ast_ab_question_c == AstSeq(<<AstQuestion(AstSeq(<<AstChar("a"), AstChar("b")>>)), AstChar("c")>>)
Ast_ab_star_c == AstSeq(<<AstStar(AstSeq(<<AstChar("a"), AstChar("b")>>)), AstChar("c")>>)

TestASTs == {Ast_abc, Ast_ab_or_c, Ast_ab_plus_c, Ast_ab_question_c, Ast_ab_star_c}

ASTs == Level2 \cup StarChains({AstStar(r) : r \in Level1}, MaxChain) \cup TestASTs

RECURSIVE LinesOfLen(_)
LinesOfLen(n) ==
    IF n = 0 THEN {<<>>}
    ELSE {Append(l, c) : l \in LinesOfLen(n - 1), c \in Alphabet}

Lines == UNION {LinesOfLen(n) : n \in 0..MaxLineLen}

\* Instruction vectors handed to the public evaluator::eval directly: eval
\* accepts any slice, also one holding HeadOfLine, which gen_code never
\* emits, or a target outside the vector.
RawPrograms ==
    { <<HeadOfLine, Char("a"), Match>>,
      <<Char("a"), HeadOfLine, Match>>,
      <<Split(1, 3), HeadOfLine, Jump(3), Char("b"), Match>>,
      <<Char("a"), Jump(3)>>,
      <<Split(2, 1), Match>>,
      <<>> }

(***************************************************************************)
(* State.  result is "pending" until gen_code has run, "compiled" between  *)
(* gen_code and eval, "running" while eval_depth invocations are active,   *)
(* and then the value do_matching (or eval) returned.  stack holds the     *)
(* active eval_depth invocations, innermost last: pc and sp are the        *)
(* invocation's own counters, and st tells whether it is executing         *)
(* ("run") or suspended in the Split arm awaiting its first ("wait1") or   *)
(* second ("wait2") recursive call.  ret is the value the invocation that  *)
(* returned last hands to its caller.                                      *)
(***************************************************************************)
Frame(pc, sp) == [pc |-> pc, sp |-> sp, st |-> "run"]

Top == stack[Len(stack)]

Pop == SubSeq(stack, 1, Len(stack) - 1)

\* match_file (main.rs) is not running: do_matching is called on its own
DriverIdle == [phase |-> "idle"]

Init ==
    /\ \/ ast \in ASTs /\ insts = <<>> /\ result = "pending"
       \/ ast = NoAst /\ insts \in RawPrograms /\ result = "compiled"
    /\ line \in Lines
    /\ include_head_of_line \in BOOLEAN
    /\ stack = <<>>
    /\ ret = "none"
    /\ driver = DriverIdle
    /\ prior = "none"

\* do_matching: let code = codegen::gen_code(&ast)?;
GenCode ==
    /\ result = "pending"
    /\ LET g == gen_code(ast)
       IN  IF g.err = "none"
           THEN insts' = g.insts /\ result' = "compiled"
           ELSE insts' = insts /\ result' = g.err
    /\ UNCHANGED <<prior, driver, ast, line, include_head_of_line, stack, ret>>

\* eval: eval_depth(inst, line, 0, 0, include_head_of_line)
Eval ==
    /\ result = "compiled"
    /\ stack' = <<Frame(0, 0)>>
    /\ result' = "running"
    /\ UNCHANGED <<prior, driver, ast, line, include_head_of_line, insts, ret>>

\* the innermost invocation is at the head of its loop
Executing == result = "running" /\ ret = "none" /\ stack # <<>> /\ Top.st = "run"

\* the innermost invocation returns v to its caller
Return(v) == stack' = Pop /\ ret' = v

\* the innermost invocation goes on with counters pc, sp
Continue(pc, sp) == stack' = [stack EXCEPT ![Len(stack)] = Frame(pc, sp)] /\ ret' = ret

\* The arms of eval_depth.  The counters advance through safe_add, whose
\* error needs pc or sp at usize::MAX, out of reach of the runs modelled.
\* The arm for Instruction::EndOfLine (evaluator.rs:74-79) has no action:
\* the enum Instruction (engine.rs:13-20) has no such variant, so no
\* instruction vector holds one.

\* inst.get(pc) is None
ExecInvalidPC ==
    /\ Executing
    /\ Top.pc >= Len(insts)
    /\ Return("InvalidPC")
    /\ UNCHANGED <<prior, driver, ast, line, include_head_of_line, insts, result>>

Fetch(op) == Executing /\ Top.pc < Len(insts) /\ insts[Top.pc + 1].op = op

Next_inst == insts[Top.pc + 1]

\* Char arm that reports the end of the line as an error
ExecChar_end_is_error ==
    /\ Fetch("Char")
    /\ IF Top.sp < Len(line)
       THEN IF line[Top.sp + 1] = Next_inst.c
            THEN Continue(Top.pc + 1, Top.sp + 1)
            ELSE Return("false")
       ELSE Return("SPOverFlow")
    /\ UNCHANGED <<prior, driver, ast, line, include_head_of_line, insts, result>>

\* Char arm that takes the end of the line for a match
ExecChar_end_is_match ==
    /\ Fetch("Char")
    /\ IF Top.sp < Len(line)
       THEN IF line[Top.sp + 1] = Next_inst.c
            THEN Continue(Top.pc + 1, Top.sp + 1)
            ELSE Return("false")
       ELSE Return("true")
    /\ UNCHANGED <<prior, driver, ast, line, include_head_of_line, insts, result>>

\* Char arm that advances pc alone
ExecChar_keeps_sp ==
    /\ Fetch("Char")
    /\ IF Top.sp < Len(line) /\ line[Top.sp + 1] = Next_inst.c
       THEN Continue(Top.pc + 1, Top.sp)
       ELSE Return("false")
    /\ UNCHANGED <<prior, driver, ast, line, include_head_of_line, insts, result>>

ExecChar ==
    /\ Fetch("Char")
    /\ IF Top.sp < Len(line) /\ line[Top.sp + 1] = Next_inst.c
       THEN Continue(Top.pc + 1, Top.sp + 1)
       ELSE Return("false")
    /\ UNCHANGED <<prior, driver, ast, line, include_head_of_line, insts, result>>

\* AnyChar arm that fails the branch when no character remains
ExecAnyChar_checks_end ==
    /\ Fetch("AnyChar")
    /\ IF Top.sp < Len(line)
       THEN Continue(Top.pc + 1, Top.sp + 1)
       ELSE Return("false")
    /\ UNCHANGED <<prior, driver, ast, line, include_head_of_line, insts, result>>

ExecAnyChar ==
    /\ Fetch("AnyChar")
    /\ Continue(Top.pc + 1, Top.sp + 1)
    /\ UNCHANGED <<prior, driver, ast, line, include_head_of_line, insts, result>>

\* HeadOfLine arm that does not look at include_head_of_line
ExecHeadOfLine_ignores_flag ==
    /\ Fetch("HeadOfLine")
    /\ IF Top.sp # 0
       THEN Return("false")
       ELSE Continue(Top.pc + 1, Top.sp)
    /\ UNCHANGED <<prior, driver, ast, line, include_head_of_line, insts, result>>

ExecHeadOfLine ==
    /\ Fetch("HeadOfLine")
    /\ IF ~include_head_of_line \/ Top.sp # 0
       THEN Return("false")
       ELSE Continue(Top.pc + 1, Top.sp)
    /\ UNCHANGED <<prior, driver, ast, line, include_head_of_line, insts, result>>

ExecJump ==
    /\ Fetch("Jump")
    /\ Continue(Next_inst.t1, Top.sp)
    /\ UNCHANGED <<prior, driver, ast, line, include_head_of_line, insts, result>>

\* Split arm, first operand of ||: eval_depth(inst, line, *addr1, sp, ..)
ExecSplit ==
    /\ Fetch("Split")
    /\ Len(stack) < StackLimit
    /\ stack' = Append([stack EXCEPT ![Len(stack)].st = "wait1"],
                       Frame(Next_inst.t1, Top.sp))
    /\ UNCHANGED <<prior, driver, ast, line, include_head_of_line, insts, ret, result>>

\* the recursive call finds no room on the call stack: the process aborts
StackOverflow ==
    /\ Fetch("Split")
    /\ Len(stack) >= StackLimit
    /\ result' = "StackOverflow"
    /\ UNCHANGED <<prior, driver, ast, line, include_head_of_line, insts, stack, ret>>

\* Match that accepts only when the whole line has been consumed
ExecMatch_at_end ==
    /\ Fetch("Match")
    /\ IF Top.sp >= Len(line) THEN Return("true") ELSE Return("false")
    /\ UNCHANGED <<prior, driver, ast, line, include_head_of_line, insts, result>>

ExecMatch ==
    /\ Fetch("Match")
    /\ Return("true")
    /\ UNCHANGED <<prior, driver, ast, line, include_head_of_line, insts, result>>

\* Split arm that returns the value of the first call, whatever it is
ReturnFromFirst_no_second ==
    /\ result = "running" /\ ret # "none" /\ stack # <<>> /\ Top.st = "wait1"
    /\ Return(ret)
    /\ UNCHANGED <<prior, driver, ast, line, include_head_of_line, insts, result>>

\* Split arm with | for ||: the second call is made after Ok(true) too
ReturnFromFirst_both ==
    /\ result = "running" /\ ret # "none" /\ stack # <<>> /\ Top.st = "wait1"
    /\ IF ret \in {"true", "false"}
       THEN /\ stack' = Append([stack EXCEPT ![Len(stack)].st = "wait2"],
                               Frame(Next_inst.t2, Top.sp))
            /\ ret' = "none"
       ELSE Return(ret)
    /\ UNCHANGED <<prior, driver, ast, line, include_head_of_line, insts, result>>

\* Split arm, the first call has returned: `?` hands an Err on, || returns
\* Ok(true) on true, and on false the second operand is evaluated:
\* eval_depth(inst, line, *addr2, sp, ..)
ReturnFromFirst ==
    /\ result = "running" /\ ret # "none" /\ stack # <<>> /\ Top.st = "wait1"
    /\ IF ret = "false"
       THEN /\ stack' = Append([stack EXCEPT ![Len(stack)].st = "wait2"],
                               Frame(Next_inst.t2, Top.sp))
            /\ ret' = "none"
       ELSE Return(ret)
    /\ UNCHANGED <<prior, driver, ast, line, include_head_of_line, insts, result>>

\* Split arm, the second call has returned: its value is the value of the arm
ReturnFromSecond ==
    /\ result = "running" /\ ret # "none" /\ stack # <<>> /\ Top.st = "wait2"
    /\ Return(ret)
    /\ UNCHANGED <<prior, driver, ast, line, include_head_of_line, insts, result>>

\* the outermost eval_depth has returned: eval and do_matching return its value
EvalReturn ==
    /\ result = "running" /\ ret # "none" /\ stack = <<>>
    /\ result' = ret
    /\ UNCHANGED <<prior, driver, ast, line, include_head_of_line, insts, stack, ret>>

Next ==
    \/ GenCode
    \/ Eval
    \/ ExecInvalidPC
    \/ ExecChar
    \/ ExecAnyChar
    \/ ExecHeadOfLine
    \/ ExecJump
    \/ ExecSplit
    \/ StackOverflow
    \/ ExecMatch
    \/ ReturnFromFirst
    \/ ReturnFromSecond
    \/ EvalReturn

Spec == Init /\ [][Next]_vars

\* the evaluator is sequential code that runs on: every enabled step is taken
FairSpec == Spec /\ WF_vars(Next)

TypeOK ==
    /\ result \in {"idle", "pending", "compiled", "running", "true", "false",
                   "InvalidPC", "PCOverFlow", "SPOverFlow",
                   "FailStar", "FailOr", "FailQuestion", "StackOverflow"}
    /\ ret \in {"none", "true", "false", "InvalidPC", "PCOverFlow", "SPOverFlow"}
    /\ Len(stack) <= StackLimit
    /\ \A i \in 1..Len(stack) : stack[i].st \in {"run", "wait1", "wait2"}

(***************************************************************************)
(* Auxiliary notions for the properties.                                   *)
(***************************************************************************)

\* eval is called once more on the same program, with the same flag, on the
\* line extended by t; prior keeps what the first call returned
Extend ==
    /\ driver = DriverIdle /\ prior = "none"
    /\ ast # NoAst
    /\ result \in {"true", "false"}
    /\ \E t \in Lines :
         /\ t # <<>> /\ Len(line) + Len(t) <= MaxLineLen
         /\ line' = line \o t
    /\ prior' = result
    /\ result' = "compiled"
    /\ stack' = <<>> /\ ret' = "none"
    /\ UNCHANGED <<driver, ast, include_head_of_line, insts>>

ExtendNext == Next \/ Extend

ExtendSpec == Init /\ [][ExtendNext]_vars

(***************************************************************************)
(* main.rs: match_file.  The pattern is held as what parser::parse makes   *)
(* of it: an AST, or Malformed when parse returns Err.  The file is the    *)
(* sequence of items that reader.lines() yields.  Each do_matching call    *)
(* runs the generator and the evaluator above on the suffix of the line.   *)
(***************************************************************************)
MaxFileLines == 2

\* a pattern on which parser::parse returns Err
Malformed == [t |-> "ParseError", c |-> "", kids |-> <<>>]

\* parser::parse(expr)
parse(expr) == IF expr = Malformed THEN "ParseError" ELSE "none"

\* an item of reader.lines(): Ok(text) or Err(io::Error)
Text(s) == [ok |-> TRUE, text |-> s]
ReadError == [ok |-> FALSE, text |-> <<>>]

DriverTexts == {<<>>, <<"a">>, <<"a", "b">>, <<"b", "a">>, <<"b", "b">>}
DriverItems == {Text(s) : s \in DriverTexts} \cup {ReadError}
Files == UNION {[1..n -> DriverItems] : n \in 0..MaxFileLines}

DriverExprs ==
    {Malformed, AstChar("a"), AstSeq(<<AstChar("a"), AstChar("b")>>),
     AstSeq(<<AstDot, AstChar("b")>>), AstStar(AstChar("b")),
     AstOr(AstChar("b"), AstStar(AstQuestion(AstChar("a"))))}

\* &line[i..] for the i-th char boundary (0-based)
Suffix(s, i) == SubSeq(s, i + 1, Len(s))

DriverInit ==
    /\ ast = NoAst /\ line = <<>> /\ include_head_of_line = TRUE
    /\ insts = <<>> /\ stack = <<>> /\ ret = "none" /\ result = "idle"
    /\ prior = "none"
    /\ \E e \in DriverExprs, f \in Files :
         driver = [phase |-> "start", expr |-> e, file |-> f, lineno |-> 1,
                   offset |-> 0, printed |-> <<>>, calls |-> <<>>]

EngineIdle == UNCHANGED <<ast, line, include_head_of_line, insts, stack, ret, result, prior>>

\* engine::print(expr)?  -- parse, gen_code and the listing; then println!()
DriverPrint ==
    /\ driver.phase = "start"
    /\ driver' = [driver EXCEPT !.phase =
                     IF parse(driver.expr) # "none" \/ gen_code(driver.expr).err # "none"
                     THEN "failed" ELSE "lines"]
    /\ EngineIdle

\* for line in reader.lines() { let line = line?; ...
ReadLine ==
    /\ driver.phase = "lines"
    /\ driver' = IF driver.lineno > Len(driver.file)
                 THEN [driver EXCEPT !.phase = "done"]
                 ELSE IF ~driver.file[driver.lineno].ok
                 THEN [driver EXCEPT !.phase = "failed"]
                 ELSE [driver EXCEPT !.phase = "offsets", !.offset = 0]
    /\ EngineIdle

\* for (i, _) in line.char_indices(): no offset is left
LineExhausted ==
    /\ driver.phase = "offsets"
    /\ driver.offset >= Len(driver.file[driver.lineno].text)
    /\ driver' = [driver EXCEPT !.phase = "lines", !.lineno = @ + 1]
    /\ EngineIdle

\* engine::do_matching(expr, &line[i..]): parse, then gen_code and eval run
CallDoMatching ==
    /\ driver.phase = "offsets"
    /\ driver.offset < Len(driver.file[driver.lineno].text)
    /\ ast' = driver.expr
    /\ line' = Suffix(driver.file[driver.lineno].text, driver.offset)
    \* the call site passes no third argument: either value of the flag
    /\ include_head_of_line' \in BOOLEAN
    /\ insts' = <<>> /\ stack' = <<>> /\ ret' = "none"
    /\ result' = "pending"
    /\ driver' = [driver EXCEPT !.phase = "call"]
    /\ UNCHANGED prior

\* DoMatchingReturned without the break after println!
DoMatchingReturned_no_break ==
    /\ driver.phase = "call"
    /\ result \notin {"pending", "compiled", "running"}
    /\ LET d == [driver EXCEPT !.calls = Append(@, [ln |-> driver.lineno,
                                                     off |-> driver.offset,
                                                     res |-> result])]
       IN  driver' =
             IF result = "true"
             THEN [d EXCEPT !.printed = Append(@, driver.file[driver.lineno].text),
                            !.phase = "offsets", !.offset = @ + 1]
             ELSE IF result = "false"
             THEN [d EXCEPT !.phase = "offsets", !.offset = @ + 1]
             ELSE IF result = "StackOverflow"
             THEN [d EXCEPT !.phase = "aborted"]
             ELSE [d EXCEPT !.phase = "failed"]
    /\ result' = "idle"
    /\ UNCHANGED <<ast, line, include_head_of_line, insts, stack, ret, prior>>

\* if do_matching(..)? { println!("{line}"); break; }
DoMatchingReturned ==
    /\ driver.phase = "call"
    /\ result \notin {"pending", "compiled", "running"}
    /\ LET d == [driver EXCEPT !.calls = Append(@, [ln |-> driver.lineno,
                                                     off |-> driver.offset,
                                                     res |-> result])]
       IN  driver' =
             IF result = "true"
             THEN [d EXCEPT !.printed = Append(@, driver.file[driver.lineno].text),
                            !.phase = "lines", !.lineno = @ + 1]
             ELSE IF result = "false"
             THEN [d EXCEPT !.phase = "offsets", !.offset = @ + 1]
             ELSE IF result = "StackOverflow"
             THEN [d EXCEPT !.phase = "aborted"]
             ELSE [d EXCEPT !.phase = "failed"]
    /\ result' = "idle"
    /\ UNCHANGED <<ast, line, include_head_of_line, insts, stack, ret, prior>>

\* the steps of a do_matching call in flight.  The program comes from gen_code
\* on a parsed pattern, so it holds no HeadOfLine and the pc stays inside it
\* (DriverEngineComplete below): those two branches of eval_depth cannot run.
DoMatchingStep ==
    \/ GenCode
    \/ Eval
    \/ ExecChar
    \/ ExecAnyChar
    \/ ExecJump
    \/ ExecSplit
    \/ StackOverflow
    \/ ExecMatch
    \/ ReturnFromFirst
    \/ ReturnFromSecond
    \/ EvalReturn

\* no step of the engine is left out of DoMatchingStep
DriverEngineComplete == ~ENABLED ExecInvalidPC /\ ~ENABLED ExecHeadOfLine

DriverNext ==
    \/ DriverPrint
    \/ ReadLine
    \/ LineExhausted
    \/ CallDoMatching
    \/ DoMatchingReturned
    \/ DoMatchingStep

DriverSpec == DriverInit /\ [][DriverNext]_vars

Compiled == ast # NoAst /\ result = "compiled"

FromGenerator == ast # NoAst /\ result \notin {"pending", "FailStar", "FailOr", "FailQuestion", "PCOverFlow"}

\* the AST holds no Dot
RECURSIVE NoDot(_)
NoDot(e) == e.t # "Dot" /\ \A i \in 1..Len(e.kids) : NoDot(e.kids[i])

Returned == {"true", "false", "InvalidPC", "PCOverFlow", "SPOverFlow"}

\* Beyond the end of the line every string pointer behaves alike: no Char
\* matches, AnyChar advances, HeadOfLine fails.
NormSp(sp) == IF sp > Len(line) THEN Len(line) + 1 ELSE sp

\* The innermost invocation is about to execute a Split that an invocation
\* suspended below it is executing at an equivalent string pointer.  The
\* evaluator being deterministic, the steps between the two repeat for ever.
Reentered ==
    /\ stack # <<>>
    /\ Top.st = "run"
    /\ Top.pc < Len(insts)
    /\ insts[Top.pc + 1].op = "Split"
    /\ \E i \in 1..(Len(stack) - 1) :
          stack[i].pc = Top.pc /\ NormSp(stack[i].sp) = NormSp(Top.sp)

\* The call stack is exhausted only by a recursion that never ends: no run
\* that would return needs StackLimit invocations.
OverflowIsReentry == result = "StackOverflow" => Reentered

(***************************************************************************)
(* C1: for every program gen_code produces and every line, eval returns a  *)
(* result (Ok(true), Ok(false) or an EvalError): no run recurses for ever. *)
(* Stated on finite runs: the evaluation of a generated program never      *)
(* exhausts the call stack, which (OverflowIsReentry) only an unending     *)
(* recursion does.  It is stated for the ASTs without Dot, where the       *)
(* string pointer stays within the line.                                   *)
(***************************************************************************)
C1_EvalReturns == (FromGenerator /\ NoDot(ast)) => result # "StackOverflow"

(***************************************************************************)
(* C2: in the vector gen_code returns, every target of a Jump or Split is  *)
(* less than the length of the vector, and no placeholder 0 is left where  *)
(* a forward target was due: the second target of every Split lies beyond  *)
(* the Split, and a Jump either goes forward (the Jump of an Or) or goes   *)
(* back to the Split of its Star, whose exit is the address after the Jump.*)
(***************************************************************************)
C2_TargetsInRange ==
    FromGenerator =>
        \A i \in 1..Len(insts) :
            LET addr == i - 1
                n == Len(insts)
            IN  /\ insts[i].op = "Split" =>
                      /\ insts[i].t1 < n /\ insts[i].t2 < n
                      /\ insts[i].t2 > addr
                /\ insts[i].op = "Jump" =>
                      /\ insts[i].t1 < n
                      /\ \/ insts[i].t1 > addr
                         \/ /\ insts[insts[i].t1 + 1].op = "Split"
                            /\ insts[insts[i].t1 + 1].t2 = addr + 1

C2_Witness ==
    /\ Compiled
    /\ \E i, j \in 1..Len(insts) :
          /\ insts[i].op = "Jump" /\ insts[i].t1 = Len(insts) - 1
          /\ insts[j].op = "Split" /\ insts[j].t2 = Len(insts) - 1 /\ j > 1

(***************************************************************************)
(* C3: the program gen_code returns holds exactly one Match, as its last   *)
(* instruction, and an evaluation of it yields Ok(true) only by executing  *)
(* that instruction: true arises as a return value nowhere else, and the   *)
(* result of the run is true only as the value the outermost invocation    *)
(* returned.                                                               *)
(***************************************************************************)
C3_SingleFinalMatch ==
    /\ [](FromGenerator =>
            /\ Len(insts) >= 1
            /\ \A i \in 1..Len(insts) : insts[i].op = "Match" <=> i = Len(insts))
    /\ [][(FromGenerator /\ ret # "true" /\ ret' = "true") =>
            (Executing /\ Top.pc = Len(insts) - 1 /\ insts[Top.pc + 1].op = "Match")]_vars
    /\ [][(ast # NoAst /\ result # "true" /\ result' = "true") =>
            (ret = "true" /\ stack = <<>>)]_vars

C3_Witness == ast # NoAst /\ result = "true" /\ Len(insts) >= 4 /\ Len(line) >= 2

(***************************************************************************)
(* C4: for an AST without Dot and a line on which the run returns, the     *)
(* result is Ok(true) exactly when some prefix of the line belongs to the  *)
(* language of the AST, and Ok(false) otherwise.  The reference is the     *)
(* set of positions of the line at which a word of the language can end.   *)
(***************************************************************************)
RECURSIVE LangEnds(_, _)
RECURSIVE LangEndsSeq(_, _, _)
RECURSIVE LangIterate(_, _)

\* the positions reachable from a position of S by one or more words of e
LangIterate(e, S) ==
    LET N == S \cup LangEnds(e, S)
    IN  IF N = S THEN S ELSE LangIterate(e, N)

LangEndsSeq(v, i, S) ==
    IF i > Len(v) THEN S ELSE LangEndsSeq(v, i + 1, LangEnds(v[i], S))

\* the positions at which a word of the language of e can end when it
\* starts at a position of S
LangEnds(e, S) ==
    CASE e.t = "Char" -> {q + 1 : q \in {q \in S : q < Len(line) /\ line[q + 1] = e.c}}
      [] e.t = "Dot" -> {q + 1 : q \in {q \in S : q < Len(line)}}
      [] e.t = "Seq" -> LangEndsSeq(e.kids, 1, S)
      [] e.t = "Or" -> LangEnds(e.kids[1], S) \cup LangEnds(e.kids[2], S)
      [] e.t = "Question" -> S \cup LangEnds(e.kids[1], S)
      [] e.t = "Star" -> LangIterate(e.kids[1], S)
      [] e.t = "Plus" -> LangIterate(e.kids[1], LangEnds(e.kids[1], S))

PrefixInLanguage == LangEnds(ast, {0}) # {}

C4_PrefixMatch ==
    (ast # NoAst /\ NoDot(ast) /\ result \in Returned) =>
        result = (IF PrefixInLanguage THEN "true" ELSE "false")

C4_Witness ==
    \/ /\ ast = AstSeq(<<AstPlus(AstChar("a")), AstChar("b")>>)
       /\ line = <<"a", "a", "b">>
       /\ result = "true"
       /\ PrefixInLanguage
    \/ /\ ast = AstPlus(AstChar("a"))
       /\ line = <<>>
       /\ result = "false"
       /\ ~PrefixInLanguage

(***************************************************************************)
(* C5: n nested Star wrappers around r, each directly around the next or   *)
(* around a Seq of the single element, compile to exactly the vector of    *)
(* Star(r): the program does not grow with n.                              *)
(***************************************************************************)
C5_StarCollapse ==
    Compiled =>
        \A r \in Level1 :
            ast \in StarChains({AstStar(r)}, MaxChain) =>
                insts = gen_code(AstStar(r)).insts

C5_Witness ==
    /\ Compiled
    /\ ast = AstStar(AstSeq(<<AstStar(AstStar(AstOr(AstChar("a"), AstChar("b"))))>>))
    /\ insts = <<Split(1, 6), Split(2, 4), Char("a"), Jump(5), Char("b"), Jump(0), Match>>

(***************************************************************************)
(* C6: Split(t1, t2) executed at string pointer sp first starts the branch *)
(* (t1, sp) and leaves the invocations below it untouched until that       *)
(* branch has returned; the branch (t2, sp) is started only after the      *)
(* first has returned Ok(false), with the sp the Split was reached with,   *)
(* and is never started when the first returned Ok(true).                  *)
(***************************************************************************)
\* a step that starts a recursive call from the invocation that is innermost
Calls(st) ==
    /\ stack # <<>>
    /\ Len(stack') = Len(stack) + 1
    /\ stack'[Len(stack)].st = st

C6_SplitOrder ==
    /\ [][Calls("wait1") =>
            /\ Executing /\ Next_inst.op = "Split"
            /\ stack'[Len(stack')] = Frame(Next_inst.t1, Top.sp)
            /\ stack'[Len(stack)].sp = Top.sp]_vars
    /\ [][Calls("wait2") =>
            /\ Top.st = "wait1" /\ ret = "false"
            /\ stack'[Len(stack')] = Frame(Next_inst.t2, Top.sp)
            /\ stack'[Len(stack)].sp = Top.sp]_vars
    /\ [][(result = "running" /\ stack # <<>> /\ Top.st = "wait1" /\ ret = "true") =>
            (stack' = Pop /\ ret' = "true")]_vars
    /\ [][\A i \in 1..(Len(stack) - 1) :
            Len(stack') >= i /\ stack'[i] = stack[i]]_vars

C6_Witness ==
    /\ result = "running"
    /\ Len(stack) >= 3
    /\ stack[1].st = "wait2"
    /\ stack[2].st = "wait1"
    /\ Top.st = "run"
    /\ Top.sp > stack[1].sp

(***************************************************************************)
(* C7, as claimed: the number of active eval_depth invocations stays under *)
(* a bound that depends on the program alone, not on the line; for a* the  *)
(* depth on any line is the depth on "a", which is three (the invocation   *)
(* of eval, the one that consumes the a and meets the Split again, and the *)
(* one that fails or matches).                                             *)
(***************************************************************************)
C7_DepthIndependentOfLine ==
    (ast = AstStar(AstChar("a")) /\ result = "running") => Len(stack) <= 3

(***************************************************************************)
(* C7, amended: every active invocation but the innermost is suspended in  *)
(* the arm of a Split, so the depth is one more than the number of Splits  *)
(* entered and not yet left on the current backtracking path; each         *)
(* iteration of a repetition enters its Split anew, so the depth grows     *)
(* with the line: for a* on a line of n characters it reaches n + 2 and no *)
(* more.                                                                   *)
(***************************************************************************)
C7_DepthGrowsWithLine ==
    FromGenerator =>
        /\ \A i \in 1..(Len(stack) - 1) :
              /\ stack[i].st \in {"wait1", "wait2"}
              /\ stack[i].pc < Len(insts)
              /\ insts[stack[i].pc + 1].op = "Split"
        /\ (stack # <<>> /\ ret = "none") => Top.st = "run"
        /\ \A c \in Alphabet : ast = AstStar(AstChar(c)) => Len(stack) <= Len(line) + 2

C7_Witness ==
    /\ ast = AstStar(AstChar("a"))
    /\ line = <<"a", "a", "a">>
    /\ Len(stack) = Len(line) + 2

(***************************************************************************)
(* Layout of the code of one AST node.  The code of e alone is what        *)
(* gen_expr emits for e on a fresh Generator; at address q it is that code *)
(* with q added to every target.  The layouts are checked with the         *)
(* Generator at address 0 and after it has emitted other code.             *)
(***************************************************************************)
CodeAlone(e) == gen_expr(GeneratorDefault, e).insts

Relocate(code, q) ==
    [i \in 1..Len(code) |->
        CASE code[i].op = "Jump" -> Jump(code[i].t1 + q)
          [] code[i].op = "Split" -> Split(code[i].t1 + q, code[i].t2 + q)
          [] OTHER -> code[i]]

\* Generators that gen_expr is entered with: fresh, and after the code of
\* an earlier element of a Seq
Starts ==
    {GeneratorDefault}
    \cup {gen_expr(GeneratorDefault, pre) :
            pre \in {AstChar("b"), AstStar(AstChar("a")), AstOr(AstChar("a"), AstDot)}}

(***************************************************************************)
(* C8: Or(e1, e2) emitted at address p, with n1 and n2 instructions for e1 *)
(* and e2, is Split(p+1, p+n1+2) at p, the code of e1 at p+1,              *)
(* Jump(p+n1+n2+2) at p+n1+1 and the code of e2 at p+n1+2, n1+n2+2         *)
(* instructions in all; ab|c compiles to                                   *)
(* Split(1,4); Char a; Char b; Jump(5); Char c; Match.                     *)
(***************************************************************************)
C8_OrLayout ==
    /\ (Compiled /\ ast.t = "Or") =>
          \A g \in Starts :
              LET p == g.pc
                  c1 == CodeAlone(ast.kids[1])
                  c2 == CodeAlone(ast.kids[2])
                  n1 == Len(c1)
                  n2 == Len(c2)
                  out == gen_expr(g, ast)
              IN  /\ out.err = "none"
                  /\ out.pc = p + n1 + n2 + 2
                  /\ out.insts = g.insts \o <<Split(p + 1, p + n1 + 2)>>
                                    \o Relocate(c1, p + 1)
                                    \o <<Jump(p + n1 + n2 + 2)>>
                                    \o Relocate(c2, p + n1 + 2)
    /\ (Compiled /\ ast = Ast_ab_or_c) =>
          insts = <<Split(1, 4), Char("a"), Char("b"), Jump(5), Char("c"), Match>>

C8_Witness ==
    /\ Compiled
    /\ ast = AstOr(AstStar(AstChar("a")), AstChar("b"))
    /\ insts = <<Split(1, 5), Split(2, 4), Char("a"), Jump(1), Jump(6), Char("b"), Match>>

(***************************************************************************)
(* C9: Star(e) whose body is neither a Star nor a Seq of the single        *)
(* element Star, emitted at address p with n instructions for e, is        *)
(* Split(p+1, p+n+2) at p, the code of e at p+1 and Jump(p) at p+n+1, n+2  *)
(* instructions in all; (ab)*c compiles to                                 *)
(* Split(1,4); Char a; Char b; Jump(0); Char c; Match.                     *)
(***************************************************************************)
IsStar(e) == e.t = "Star"

C9_StarLayout ==
    /\ (/\ Compiled
        /\ ast.t = "Star"
        /\ ~IsStar(ast.kids[1])
        /\ ~(ast.kids[1].t = "Seq" /\ Len(ast.kids[1].kids) = 1 /\ IsStar(ast.kids[1].kids[1]))) =>
          \A g \in Starts :
              LET p == g.pc
                  c == CodeAlone(ast.kids[1])
                  n == Len(c)
                  out == gen_expr(g, ast)
              IN  /\ out.err = "none"
                  /\ out.pc = p + n + 2
                  /\ out.insts = g.insts \o <<Split(p + 1, p + n + 2)>>
                                    \o Relocate(c, p + 1)
                                    \o <<Jump(p)>>
    /\ (Compiled /\ ast = Ast_ab_star_c) =>
          insts = <<Split(1, 4), Char("a"), Char("b"), Jump(0), Char("c"), Match>>

C9_Witness ==
    /\ Compiled
    /\ ast = AstStar(AstOr(AstChar("a"), AstChar("b")))
    /\ insts = <<Split(1, 6), Split(2, 4), Char("a"), Jump(5), Char("b"), Jump(0), Match>>

(***************************************************************************)
(* C10: Plus(e) emitted at address p with n instructions for e is the code *)
(* of e at p followed by Split(p, p+n+1) at p+n, n+1 instructions in all,  *)
(* so that e is executed once before the repetition is offered; (ab)+c     *)
(* compiles to Char a; Char b; Split(0,3); Char c; Match.                  *)
(***************************************************************************)
C10_PlusLayout ==
    /\ (Compiled /\ ast.t = "Plus") =>
          \A g \in Starts :
              LET p == g.pc
                  c == CodeAlone(ast.kids[1])
                  n == Len(c)
                  out == gen_expr(g, ast)
              IN  /\ out.err = "none"
                  /\ out.pc = p + n + 1
                  /\ out.insts = g.insts \o Relocate(c, p) \o <<Split(p, p + n + 1)>>
    /\ (Compiled /\ ast = Ast_ab_plus_c) =>
          insts = <<Char("a"), Char("b"), Split(0, 3), Char("c"), Match>>

C10_Witness ==
    /\ Compiled
    /\ ast = AstPlus(AstQuestion(AstChar("a")))
    /\ insts = <<Split(1, 2), Char("a"), Split(0, 3), Match>>

(***************************************************************************)
(* C11: Question(e) emitted at address p with n instructions for e is      *)
(* Split(p+1, p+n+1) at p followed by the code of e at p+1, n+1            *)
(* instructions in all; (ab)?c compiles to                                 *)
(* Split(1,3); Char a; Char b; Char c; Match.                              *)
(***************************************************************************)
C11_QuestionLayout ==
    /\ (Compiled /\ ast.t = "Question") =>
          \A g \in Starts :
              LET p == g.pc
                  c == CodeAlone(ast.kids[1])
                  n == Len(c)
                  out == gen_expr(g, ast)
              IN  /\ out.err = "none"
                  /\ out.pc = p + n + 1
                  /\ out.insts = g.insts \o <<Split(p + 1, p + n + 1)>> \o Relocate(c, p + 1)
    /\ (Compiled /\ ast = Ast_ab_question_c) =>
          insts = <<Split(1, 3), Char("a"), Char("b"), Char("c"), Match>>

C11_Witness ==
    /\ Compiled
    /\ ast = AstQuestion(AstOr(AstChar("a"), AstChar("b")))
    /\ insts = <<Split(1, 5), Split(2, 4), Char("a"), Jump(5), Char("b"), Match>>

(***************************************************************************)
(* C12: the code of Seq(e1..en) is the code of e1, then of e2, ..., then   *)
(* of en, each as it is emitted alone with its targets shifted by its      *)
(* start address, and nothing else; a Seq of k Char nodes compiles to k    *)
(* Char instructions and the final Match.                                  *)
(***************************************************************************)
RECURSIVE SeqCode(_, _, _)
\* the codes of v[i], v[i+1], ... laid end to end from address p
SeqCode(v, i, p) ==
    IF i > Len(v) THEN <<>>
    ELSE LET c == CodeAlone(v[i])
         IN  Relocate(c, p) \o SeqCode(v, i + 1, p + Len(c))

AllChars(v) == \A i \in 1..Len(v) : v[i].t = "Char"

C12_SeqLayout ==
    /\ (Compiled /\ ast.t = "Seq") =>
          /\ \A g \in Starts :
                LET out == gen_expr(g, ast)
                    code == SeqCode(ast.kids, 1, g.pc)
                IN  /\ out.err = "none"
                    /\ out.pc = g.pc + Len(code)
                    /\ out.insts = g.insts \o code
          /\ AllChars(ast.kids) =>
                /\ Len(insts) = Len(ast.kids) + 1
                /\ \A i \in 1..Len(ast.kids) : insts[i] = Char(ast.kids[i].c)
                /\ insts[Len(insts)] = Match
    /\ (Compiled /\ ast = Ast_abc) =>
          insts = <<Char("a"), Char("b"), Char("c"), Match>>

C12_Witness ==
    /\ Compiled
    /\ ast = AstSeq(<<AstStar(AstChar("a")), AstChar("b")>>)
    /\ insts = <<Split(1, 3), Char("a"), Jump(0), Char("b"), Match>>

(***************************************************************************)
(* C13: no evaluation of a program gen_code produced returns InvalidPC:    *)
(* the program counter of every active invocation is an index of the       *)
(* program.                                                                *)
(***************************************************************************)
C13_NoInvalidPC ==
    FromGenerator =>
        /\ ret # "InvalidPC"
        /\ result # "InvalidPC"
        /\ \A i \in 1..Len(stack) : stack[i].pc < Len(insts)

\* an invocation has advanced to the last instruction of the program
C13_Witness ==
    /\ FromGenerator
    /\ result = "running"
    /\ Len(stack) >= 3
    /\ Top.st = "run"
    /\ Top.pc = Len(insts) - 1
    /\ Top.sp = Len(line)

(***************************************************************************)
(* C14: gen_code returns none of FailOr, FailStar, FailQuestion: every     *)
(* back-patch finds at the address it noted the Split, or the Jump, that   *)
(* was emitted there; so does gen_expr entered after other code.           *)
(***************************************************************************)
BackPatchErrors == {"FailOr", "FailStar", "FailQuestion"}

C14_NoBackPatchError ==
    /\ ast # NoAst => result \notin BackPatchErrors
    /\ Compiled => \A g \in Starts : gen_expr(g, ast).err \notin BackPatchErrors

C14_Witness ==
    /\ Compiled
    /\ ast = AstOr(AstQuestion(AstChar("a")), AstDot)
    /\ insts = <<Split(1, 4), Split(2, 3), Char("a"), Jump(5), AnyChar, Match>>

(***************************************************************************)
(* What a step of the innermost invocation does to it: it goes on with     *)
(* counters pc and sp, or it returns v to its caller.                      *)
(***************************************************************************)
GoesOn(pc, sp) ==
    /\ stack' = [stack EXCEPT ![Len(stack)] = [pc |-> pc, sp |-> sp, st |-> "run"]]
    /\ ret' = "none"
    /\ result' = "running"

Returns(v) ==
    /\ stack' = SubSeq(stack, 1, Len(stack) - 1)
    /\ ret' = v
    /\ result' = "running"

(***************************************************************************)
(* C15: a Char(c) executed with no character left at sp, or with another   *)
(* character than c at sp, makes its branch return Ok(false), not an       *)
(* error; with c at sp, pc and sp advance by exactly one.                  *)
(***************************************************************************)
C15_CharFailsWithFalse ==
    [][Fetch("Char") =>
         IF Top.sp < Len(line) /\ line[Top.sp + 1] = insts[Top.pc + 1].c
         THEN GoesOn(Top.pc + 1, Top.sp + 1)
         ELSE Returns("false")]_vars

\* a+ on "a": the second round of the body has met the end of the line and
\* handed false to the Split
C15_Witness ==
    /\ ast = AstPlus(AstChar("a"))
    /\ line = <<"a">>
    /\ ret = "false"
    /\ stack = <<[pc |-> 1, sp |-> 1, st |-> "wait1"]>>

(***************************************************************************)
(* C16: HeadOfLine advances pc by one and leaves sp as it is exactly when  *)
(* include_head_of_line is true and sp is 0; in every other case the       *)
(* branch returns Ok(false).                                               *)
(***************************************************************************)
C16_HeadOfLineZeroWidth ==
    [][Fetch("HeadOfLine") =>
         IF include_head_of_line /\ Top.sp = 0
         THEN GoesOn(Top.pc + 1, Top.sp)
         ELSE Returns("false")]_vars

C16_Witness ==
    /\ insts = <<HeadOfLine, Char("a"), Match>>
    /\ include_head_of_line
    /\ result = "running"
    /\ stack = <<[pc |-> 1, sp |-> 0, st |-> "run"]>>

\* with include_head_of_line false the assertion fails at sp = 0 too
C16_WitnessDisabled ==
    /\ insts = <<HeadOfLine, Char("a"), Match>>
    /\ ~include_head_of_line
    /\ line = <<"a">>
    /\ result = "false"

(***************************************************************************)
(* C17: AnyChar fails no branch: it advances pc and sp by exactly one      *)
(* whether or not a character remains at sp, so that sp can pass the end   *)
(* of the line, and the program of the pattern `.` returns Ok(true) on the *)
(* empty line.                                                             *)
(***************************************************************************)
C17_AnyCharNeverFails ==
    /\ [][Fetch("AnyChar") => GoesOn(Top.pc + 1, Top.sp + 1)]_vars
    /\ []((ast = AstDot /\ line = <<>> /\ result \notin {"pending", "compiled", "running"})
            => result = "true")

\* `.` on the empty line: AnyChar has moved sp to 1, beyond the line
C17_Witness ==
    /\ ast = AstDot
    /\ line = <<>>
    /\ insts = <<AnyChar, Match>>
    /\ stack = <<[pc |-> 1, sp |-> 1, st |-> "run"]>>

(***************************************************************************)
(* C18: scan order of match_file                                           *)
(***************************************************************************)
\* the do_matching calls that returned Ok(true), in the order they were made
Hits == SelectSeq(driver.calls, LAMBDA c : c.res = "true")

\* offsets of a line are tried from 0 upwards, one by one, each after a false
ScanOrder ==
    \A k \in 1..Len(driver.calls) :
        LET c == driver.calls[k]
        IN  /\ c.ln \in 1..Len(driver.file) /\ driver.file[c.ln].ok
            /\ c.off < Len(driver.file[c.ln].text)
            /\ IF k > 1 /\ driver.calls[k - 1].ln = c.ln
               THEN driver.calls[k - 1].res = "false" /\ c.off = driver.calls[k - 1].off + 1
               ELSE c.off = 0 /\ (k > 1 => driver.calls[k - 1].ln < c.ln)

\* what was printed is, in order and once each, the lines with a successful offset
PrintedOnce ==
    /\ driver.printed = [k \in 1..Len(Hits) |-> driver.file[Hits[k].ln].text]
    /\ \A j, k \in 1..Len(Hits) : j < k => Hits[j].ln < Hits[k].ln

\* a line that was not printed had every one of its offsets tried
AllTried ==
    driver.phase = "done" =>
        \A ln \in 1..Len(driver.file) :
            \/ \E k \in 1..Len(Hits) : Hits[k].ln = ln
            \/ \A off \in 0..(Len(driver.file[ln].text) - 1) :
                 \E k \in 1..Len(driver.calls) :
                     driver.calls[k] = [ln |-> ln, off |-> off, res |-> "false"]

\* a call that returned neither Ok(true) nor Ok(false) is the last one
ErrIsLast ==
    \A k \in 1..Len(driver.calls) :
        driver.calls[k].res \notin {"true", "false"} =>
            k = Len(driver.calls) /\ driver.phase \in {"failed", "aborted"}

\* C18: match_file tries the suffixes of each line at increasing offsets; a line
\* is printed exactly once iff some offset succeeds, no offset of the line is
\* tried after the first success, and once the run has ended (Ok, Err or abort)
\* no further offset or line is processed.
C18_ScanOrder ==
    /\ [](driver.phase # "idle" => ScanOrder /\ PrintedOnce /\ AllTried /\ ErrIsLast)
    /\ [][driver.phase \notin {"done", "failed", "aborted"}]_vars

\* pattern a on the lines "ba", "bb": the first is printed after offset 1
\* succeeded, the second is scanned to its end and not printed
C18_Witness ==
    /\ driver.phase = "done"
    /\ driver.expr = AstChar("a")
    /\ driver.file = <<Text(<<"b", "a">>), Text(<<"b", "b">>)>>
    /\ driver.printed = <<<<"b", "a">>>>
    /\ Len(driver.calls) = 4

\* a run ended by the Err of `line?` after it had printed the first line
C18_WitnessEnded ==
    /\ driver.phase = "failed"
    /\ driver.file = <<Text(<<"b", "a">>), ReadError>>
    /\ driver.printed = <<<<"b", "a">>>>

(***************************************************************************)
(* C19: the generator's counter                                            *)
(***************************************************************************)
\* new holds old, extended at the end, and differs from it in place only in
\* the target fields of a Split or a Jump
Grows(old, new) ==
    /\ Len(old) <= Len(new)
    /\ \A i \in 1..Len(old) :
         \/ new[i] = old[i]
         \/ /\ old[i].op \in {"Split", "Jump"}
            /\ new[i].op = old[i].op /\ new[i].c = old[i].c

\* the entries and returns of the gen_expr calls made since g
Since(g, out) == SubSeq(out.trace, Len(g.trace) + 1, Len(out.trace))

\* C19: at the entry to and at the successful return from every gen_expr call,
\* and at the return from gen_code, pc = insts.len(); between any two of these
\* moments insts only grows at its end, but for the target fields of Splits
\* and Jumps it already holds.
C19_PcCountsInsts ==
    Compiled =>
        /\ \A g \in Starts :
             LET out == gen_expr(g, ast)
                 tr == Since(g, out)
             IN  /\ out.err = "none"
                 /\ \A k \in 1..Len(tr) : tr[k].pc = Len(tr[k].insts)
                 /\ tr[1].ev = "entry" /\ tr[1].insts = g.insts
                 /\ tr[Len(tr)].ev = "return" /\ tr[Len(tr)].insts = out.insts
                 /\ tr[Len(tr)].pc = out.pc
                 /\ \A k \in 1..(Len(tr) - 1) : Grows(tr[k].insts, tr[k + 1].insts)
        /\ LET body == gen_expr(GeneratorDefault, ast)
               code == gen_code(ast)
           IN  /\ code.pc = Len(code.insts)
               /\ code.insts = Append(body.insts, Match)

\* a|b: the Split is emitted as Split(1, 0) before the first operand, and is
\* Split(1, 3) when the call returns, after four nested entries and returns
C19_Witness ==
    /\ ast = AstOr(AstChar("a"), AstChar("b"))
    /\ result = "compiled"
    /\ LET out == gen_expr(GeneratorDefault, ast)
       IN  /\ Len(out.trace) = 6
           /\ out.trace[2] = [ev |-> "entry", pc |-> 1, insts |-> <<Split(1, 0)>>]
           /\ out.trace[6].insts[1] = Split(1, 3)
           /\ out.trace[6].pc = 4

(***************************************************************************)
(* C20: extending the line                                                 *)
(***************************************************************************)
\* C20: for a program made by gen_code, if eval returned Ok(true) on a line
\* and eval on an extension of that line, with the same flag, terminates,
\* then it returns Ok(true) as well.
C20_ExtensionKeepsMatch ==
    (prior = "true" /\ result \in Returned) => result = "true"

\* a+ on "a", then on "aa": the second run takes the loop once more before Match
C20_Witness ==
    /\ prior = "true" /\ result = "true"
    /\ ast = AstPlus(AstChar("a"))
    /\ line = <<"a", "a">>

\* the converse fails: ab is not matched on "a" and is matched on "ab"
C20_WitnessGained ==
    /\ prior = "false" /\ result = "true"
    /\ ast = AstSeq(<<AstChar("a"), AstChar("b")>>)
    /\ line = <<"a", "b">>

====
